---------------------------- MODULE Spec2Model ----------------------------
(***************************************************************************)
(* PolyForge.py is one top-to-bottom script.  One invocation is modelled   *)
(* as a walk of `pc` through the script's sections in source order; the    *)
(* machine it runs on is the persisted Config and StateCache documents,    *)
(* /etc/fstab, the block devices and the enabled systemd units.            *)
(*                                                                         *)
(* An exception raised at module level is not caught by anything (main()   *)
(* at line 1270 wraps only the undefined run_polyforge), so it ends the    *)
(* interpreter with status 1.                                              *)
(***************************************************************************)
EXTENDS Integers, Sequences, FiniteSets, TLC

\* ------------------------------------------------------------------ bounds
\* At most MaxFlags command-line flags are supplied to one invocation.
MaxFlags == 2
\* lsblk reports at most MaxDisks block devices besides the system disk.
MaxDisks == 1
\* The operator accepts at most MaxYes of the optional offers of one run
\* (a service of interactive_config, wiping a disk, using a USB device,
\* installing a service, enabling automation).
MaxYes == 1
\* The script is run at most MaxRuns times in a row on the machine.
MaxRuns == 2

\* --------------------------------------------------------------- constants
\* The flags the script looks for in sys.argv (lines 44-51) or declares to
\* argparse (lines 1121-1126), and --validate of the CLI surface.
Flags ==
    {"--dry-run", "--no-prompt", "--reconfigure", "--repair", "--uninstall",
     "--validate", "--disable-automation"}

\* The options argparse knows; parse_args() rejects every other option.
ArgparseOptions ==
    {"--dry-run", "--no-prompt", "--repair", "--reconfigure", "--uninstall",
     "--disable-automation"}

CONFIG_PATH == "/etc/polyforge/config.yaml"
STATE_PATH == "/etc/polyforge/state-cache.yaml"

\* The keys of the services dict interactive_config asks about.
InteractiveServices ==
    {"plex", "minecraft", "casaos", "cockpit", "virtualbox", "duckdns",
     "restic", "tailscale"}

\* The module-level service prompts of sections 27-35, in source order.
ServiceOrder ==
    <<"plex", "minecraft", "casaos", "cockpit", "warpinator", "virtualbox",
      "netdata", "usb_backup">>

\* The units `systemctl enable --now` is issued for by each service install.
ServiceUnits(svc) ==
    CASE svc = "plex" -> {"plexmediaserver"}
      [] svc = "minecraft" -> {"minecraft"}
      [] svc = "casaos" -> {"docker", "casaos"}
      [] svc = "cockpit" -> {"cockpit.socket"}
      [] svc = "virtualbox" -> {"vboxdrv"}
      [] OTHER -> {}

\* uninstall_everything's list of units and of folders.
UninstallServices ==
    {"plexmediaserver", "duckdns", "casaos", "cockpit", "warp", "virtualbox",
     "polyforge-automate.timer", "polyforge-automate.service"}

UninstallFolders == {"/data", "/etc/polyforge", "~/polyforge"}

\* Repair mode's list of units.
RepairServices == {"plexmediaserver", "duckdns", "casaos", "minecraft"}

\* The checks the --validate block registers (lines 1328-1332).
ValidateChecks ==
    {"Config file", "Disk mounts", "Network connection", "DuckDNS status",
     "Service health"}

\* The directory of a path under /etc/polyforge.
DirOf(path) == IF path \in {CONFIG_PATH, STATE_PATH} THEN "/etc/polyforge" ELSE path

\* ------------------------------------------------------------ environment
\* The device names lsblk can report, in the order lsblk prints them.
AllDevs == <<"sdb", "sdc", "sdd", "sde">>
DevIndex(d) == CHOOSE i \in 1..Len(AllDevs) : AllDevs[i] = d
\* lsblk's blockdevices list on a machine whose devices are ds.
DevOrder(ds) == SelectSeq(AllDevs, LAMBDA d : d \in DOMAIN ds)
\* The machines with n devices, each raw or formatted and mounted by an
\* earlier run, each on the USB transport or not.
Inventories(n) ==
    {ds \in [{AllDevs[i] : i \in 1..n} ->
                [usb : BOOLEAN, mounted : BOOLEAN, uuid : 0..n]] :
        \A d \in DOMAIN ds : ds[d].uuid = IF ds[d].mounted THEN DevIndex(d) ELSE 0}

\* lsblk's MODEL and SIZE columns: the devices are identical disks.
DevModel(d) == "WDC WD5000"
DevSize(d) == "500G"

Names == {"polyforge-node"}

\* What the operator types at the SSH port prompt (line 681).
SshPortInputs == {"22", "80"}

Distros == {"debian", "fedora"}

\* ------------------------------------------------------------------ state
VARIABLES
    argv,          \* the flags of this invocation
    pc,            \* the section of the script about to run
    exit_code,     \* the process's exit status; -1 while it runs
    install_mode,  \* intro_prompt's answer
    config,        \* the in-memory config dict
    config_file,   \* /etc/polyforge/config.yaml
    state_file,    \* /etc/polyforge/state-cache.yaml
    devs,          \* the block devices
    fstab,         \* the lines of /etc/fstab
    next_uuid,     \* the next filesystem UUID mkfs hands out
    unmounted,     \* detect_unmounted_devices' result
    fstab_entries, \* setup_unmounted_disks' local list
    usb_disks,     \* detect_usb_devices' result
    idx,           \* the loop position in the current list
    units,         \* the enabled systemd units
    calls,         \* the kinds of mutating call issued so far in this run
    accepted,      \* how many optional offers the operator accepted
    mode_path,     \* the mode blocks this run entered
    confirm,       \* the operator's answer to the uninstall confirmation
    disable_req,   \* units a disable request was issued for
    disable_failed,\* units whose disable failed, the unit not existing
    restart_req,   \* units a restart request was issued for
    removed,       \* folders removed with rm -rf
    checks_run,    \* validation checks executed
    checks_failed, \* validation checks that failed
    crashlog,      \* whether /var/log/polyforge_crash.log was written
    raised,        \* the exception raised in this run, "none" if none
    loaded,        \* what load_config printed and returned in this run
    config_before, \* config.yaml as it was when the last save began
    devs0,         \* the block devices as they were when this run began
    run,           \* the number of this run on the machine
    ports,         \* the mapping check_ports is called with
    listening,     \* the ports a connection to localhost succeeds on
    in_use         \* check_ports' result

vars ==
    <<argv, pc, exit_code, install_mode, config, config_file, state_file,
      devs, fstab, next_uuid, unmounted, fstab_entries, usb_disks, idx,
      units, calls, accepted, mode_path, confirm, disable_req,
      disable_failed, restart_req, removed, checks_run, checks_failed,
      crashlog, raised, loaded, config_before, devs0, run, ports, listening,
      in_use>>

\* ----------------------------------------------------------- config dicts
NoServices == [s \in {} |-> TRUE]

\* A dict: `keys` are the keys present; the other fields hold the values of
\* the keys the model follows (a field whose key is absent holds a default).
EmptyDict ==
    [keys |-> {}, system_name |-> "", duckdns |-> FALSE,
     services |-> NoServices, usb_backups |-> <<>>, ssh_port |-> 0,
     firewall_tool |-> "", automation_enabled |-> FALSE]

\* A file: absent, unparseable, or holding the dump of a dict.
NoFile == [exists |-> FALSE, parses |-> FALSE, doc |-> EmptyDict]
CorruptFile == [exists |-> TRUE, parses |-> FALSE, doc |-> EmptyDict]
FileOf(doc) == [exists |-> TRUE, parses |-> TRUE, doc |-> doc]

\* A Config document a previous interactive run left behind.
PreviousDoc ==
    [EmptyDict EXCEPT
        !.keys = {"system_name", "admin_user", "admin_pass", "hostname",
                  "duckdns_token", "duckdns_domain", "services"},
        !.system_name = "polyforge-node",
        !.duckdns = TRUE,
        !.services = [s \in InteractiveServices |-> s = "plex"]]

PreviousState ==
    [EmptyDict EXCEPT
        !.keys = {"last_run", "distro", "hostname", "system_name", "services",
                  "drives"},
        !.system_name = "polyforge-node",
        !.services = [s \in InteractiveServices |-> s = "plex"]]

\* load_config: None (here: the empty dict, which is as falsy) when the file
\* is absent or does not parse, else the parsed document.
load_config(file) ==
    IF ~file.exists THEN EmptyDict
    ELSE IF ~file.parses THEN EmptyDict
    ELSE file.doc

\* What load_config prints: the not-found message (line 255), the parse
\* error message (line 261) or nothing.
load_message(file) ==
    IF ~file.exists THEN "Config file not found"
    ELSE IF ~file.parses THEN "Error parsing config.yaml"
    ELSE "none"

\* load_config was not called (install_mode was not "config").
NotLoaded == [msg |-> "not called", doc |-> EmptyDict]

\* `if not config`: None and the empty dict are falsy.
Falsy(c) == c.keys = {}

\* ------------------------------------------------------------ port check
\* A dict of service name to a port or a list of ports is the sequence of
\* its items in insertion order; `list` says whether the value is a list
\* (isinstance(val, list)), `ports` holds the port or the ports.
REQUIRED_PORTS ==
    <<[name |-> "SSH", list |-> FALSE, ports |-> <<22>>],
      [name |-> "HTTP", list |-> FALSE, ports |-> <<80>>],
      [name |-> "HTTPS", list |-> FALSE, ports |-> <<443>>],
      [name |-> "Plex", list |-> FALSE, ports |-> <<32400>>],
      [name |-> "Minecraft", list |-> TRUE, ports |-> <<25565, 25566, 25567>>]>>

\* The always-true probe.
is_port_used_always(port, open) == TRUE

\* is_port_used: connect_ex(("localhost", port)) == 0.
is_port_used(port, open) == port \in open

\* The inner loop of check_ports over a list value.
ListInUse(name, list, open) ==
    SelectSeq([i \in 1..Len(list) |-> <<name, list[i]>>],
              LAMBDA pair : is_port_used(pair[2], open))

\* check_ports (lines 557-567): the list in_use of (name, port) tuples.
RECURSIVE check_ports(_, _)
check_ports(items, open) ==
    IF items = <<>> THEN <<>>
    ELSE LET item == Head(items)
             found == IF item.list
                      THEN ListInUse(item.name, item.ports, open)
                      ELSE IF is_port_used(item.ports[1], open)
                           THEN <<<<item.name, item.ports[1]>>>>
                           ELSE <<>>
         IN  found \o check_ports(Tail(items), open)

\* ------------------------------------------------------------------ init
\* The script is at `start` on one of the given machines, started with one
\* of the given command lines.
Boot(start, commands, machines, inventories, mappings, listeners) ==
    /\ argv \in commands
    /\ pc = start
    /\ ports \in mappings
    /\ listening \in listeners
    /\ in_use = <<>>
    /\ exit_code = -1
    /\ install_mode = "unset"
    /\ config = EmptyDict
    /\ \E m \in machines :
          /\ config_file = CASE m = "fresh" -> NoFile
                             [] m = "provisioned" -> FileOf(PreviousDoc)
                             [] OTHER -> CorruptFile
          /\ state_file = IF m = "fresh" THEN NoFile ELSE FileOf(PreviousState)
    /\ devs \in inventories
    /\ fstab = <<>>
    /\ next_uuid = MaxDisks + 1
    /\ unmounted = <<>>
    /\ fstab_entries = <<>>
    /\ usb_disks = <<>>
    /\ idx = 0
    /\ units = {}
    /\ calls = {}
    /\ accepted = 0
    /\ mode_path = {}
    /\ confirm = "none"
    /\ disable_req = {}
    /\ disable_failed = {}
    /\ restart_req = {}
    /\ removed = {}
    /\ checks_run = {}
    /\ checks_failed = {}
    /\ crashlog = FALSE
    /\ raised = "none"
    /\ loaded = NotLoaded
    /\ config_before = config_file
    /\ devs0 = devs
    /\ run = 1

\* One run of the script, with any flags, on a fresh machine, on one an
\* earlier run provisioned or on one whose config.yaml does not parse; no
\* other program listens on a service port.
Init ==
    Boot("preflight",
         {A \in SUBSET Flags : Cardinality(A) <= MaxFlags},
         {"fresh", "provisioned", "corrupt"},
         UNION {Inventories(n) : n \in 0..MaxDisks},
         {REQUIRED_PORTS}, {{}})

\* An exception nothing catches: the interpreter prints the traceback and
\* exits with status 1.
Uncaught(exc) ==
    /\ pc' = "crashed"
    /\ exit_code' = 1
    /\ raised' = exc

\* The process is gone: by sys.exit, by an uncaught exception, or killed.
Terminated == pc \in {"exited", "crashed", "killed"}

\* sys.exit(code)
SysExit(code) ==
    /\ pc' = "exited"
    /\ exit_code' = code

\* --------------------------------------------------- sections 3-10: config
\* show_preflight_summary, fix_common_issues, snapshot_mounts.  get_ram_gb
\* raises when /proc/meminfo has no MemTotal line.
Preflight ==
    /\ pc = "preflight"
    /\ \E ram_ok \in BOOLEAN :
          IF ram_ok
          THEN /\ pc' = "intro_prompt"
               /\ UNCHANGED <<exit_code, raised>>
          ELSE Uncaught("AttributeError")
    /\ UNCHANGED <<argv, install_mode, config, config_file, state_file, devs,
                   fstab, next_uuid, unmounted, fstab_entries, usb_disks, idx,
                   units, calls, accepted, mode_path, confirm,
                   disable_req, disable_failed, restart_req, removed,
                   checks_run, checks_failed, crashlog,
                   loaded, config_before, devs0, run,
                   ports, listening, in_use>>

\* intro_prompt: "config" under --no-prompt, else the operator's choice.
intro_prompt(choice) ==
    IF "--no-prompt" \in argv THEN "config"
    ELSE CASE choice = "1" -> "auto"
           [] choice = "2" -> "interactive"
           [] choice = "3" -> "config"

IntroPrompt ==
    /\ pc = "intro_prompt"
    /\ \E choice \in {"1", "2", "3"} : install_mode' = intro_prompt(choice)
    /\ pc' = "load_config"
    /\ UNCHANGED <<argv, exit_code, config, config_file, state_file, devs,
                   fstab, next_uuid, unmounted, fstab_entries, usb_disks, idx,
                   units, calls, accepted, mode_path, confirm,
                   disable_req, disable_failed, restart_req, removed,
                   checks_run, checks_failed, crashlog,
                   raised, loaded, config_before, devs0, run,
                   ports, listening, in_use>>

\* Lines 264-269: a failed load falls back to interactive mode.
LoadConfig ==
    /\ pc = "load_config"
    /\ IF install_mode = "config"
       THEN /\ config' = load_config(config_file)
            /\ loaded' = [msg |-> load_message(config_file),
                          doc |-> load_config(config_file)]
            /\ install_mode' = IF Falsy(load_config(config_file))
                                THEN "interactive" ELSE install_mode
       ELSE UNCHANGED <<config, install_mode, loaded>>
    /\ pc' = "system_name"
    /\ UNCHANGED <<argv, exit_code, config_file, state_file, devs, fstab,
                   next_uuid, unmounted, fstab_entries, usb_disks, idx, units,
                   calls, accepted, mode_path, confirm, disable_req,
                   disable_failed, restart_req, removed, checks_run,
                   checks_failed, crashlog,
                   raised, config_before, devs0, run,
                   ports, listening, in_use>>

\* open(path, "w") followed by yaml.dump(doc, f).
WriteYaml(doc) == FileOf(doc)

\* The keys a config dict can hold, in the order yaml.dump writes them
\* (sort_keys is left at its default, True).
DumpOrder ==
    <<"admin_pass", "admin_user", "automation_enabled", "duckdns_domain",
      "duckdns_token", "firewall_tool", "hostname", "network", "services",
      "ssh_port", "system_name", "usb_backups">>

\* The dict holding the entries of doc whose keys are in ks.
Restrict(doc, ks) ==
    [keys |-> doc.keys \cap ks,
     system_name |-> IF "system_name" \in ks THEN doc.system_name ELSE "",
     duckdns |-> IF {"duckdns_token", "duckdns_domain"} \subseteq ks
                 THEN doc.duckdns ELSE FALSE,
     services |-> IF "services" \in ks THEN doc.services ELSE NoServices,
     usb_backups |-> IF "usb_backups" \in ks THEN doc.usb_backups ELSE <<>>,
     ssh_port |-> IF "ssh_port" \in ks THEN doc.ssh_port ELSE 0,
     firewall_tool |-> IF "firewall_tool" \in ks THEN doc.firewall_tool ELSE "",
     automation_enabled |-> IF "automation_enabled" \in ks
                            THEN doc.automation_enabled ELSE FALSE]

\* What `with open(path, "w") as f: yaml.dump(doc, f)` leaves on disk when
\* the process is killed before the block completes.  open(..., "w") has
\* truncated the file in place; of the dump nothing, or the entries up to
\* some key, or text cut inside an entry (which does not parse) was flushed.
InterruptedWrite(doc) ==
    {CorruptFile} \cup
    {FileOf(Restrict(doc, {DumpOrder[i] : i \in 1..k})) :
        k \in {j \in 0..Len(DumpOrder) :
                 ~(doc.keys \subseteq {DumpOrder[i] : i \in 1..j})}}

\* The process is killed (SIGKILL, status 137) while it writes a file.
Killed ==
    /\ pc' = "killed"
    /\ exit_code' = 137

\* Lines 274-281: outside config mode the config is replaced by a new dict
\* holding the system name alone and written to CONFIG_PATH.
SystemName ==
    /\ pc = "system_name"
    /\ IF install_mode # "config"
       THEN \E name \in Names, completes \in BOOLEAN :
              LET c == [EmptyDict EXCEPT !.keys = {"system_name"},
                                         !.system_name = name]
              IN  /\ config' = c
                  /\ config_before' = config_file
                  /\ calls' = calls \cup {"config_write"}
                  /\ IF completes
                     THEN /\ config_file' = WriteYaml(c)
                          /\ pc' = "interactive_config"
                          /\ UNCHANGED exit_code
                     ELSE /\ config_file' \in InterruptedWrite(c)
                          /\ Killed
       ELSE /\ pc' = "interactive_config"
            /\ UNCHANGED <<config, config_file, config_before, calls,
                           exit_code>>
    /\ UNCHANGED <<argv, install_mode, state_file, devs, fstab,
                   next_uuid, unmounted, fstab_entries, usb_disks, idx, units,
                   accepted, mode_path, confirm, disable_req,
                   disable_failed, restart_req, removed, checks_run,
                   checks_failed, crashlog,
                   raised, loaded, devs0, run,
                   ports, listening, in_use>>

\* interactive_config (lines 294-321): the prompts, then the config written
\* to CONFIG_PATH.  `duck` says whether a DuckDNS token and domain were given,
\* `yes` are the services the operator confirmed.
interactive_config(c, duck, yes) ==
    [c EXCEPT
        !.keys = @ \cup {"admin_user", "admin_pass", "hostname",
                         "duckdns_token", "duckdns_domain", "services"},
        !.duckdns = duck,
        !.services = [s \in InteractiveServices |-> s \in yes]]

InteractiveConfig ==
    /\ pc = "interactive_config"
    /\ IF install_mode = "interactive"
       THEN \E duck \in BOOLEAN, yes \in SUBSET InteractiveServices,
               completes \in BOOLEAN :
              /\ accepted + Cardinality(yes) <= MaxYes
              /\ accepted' = accepted + Cardinality(yes)
              /\ config' = interactive_config(config, duck, yes)
              /\ config_before' = config_file
              /\ calls' = calls \cup {"config_write"}
              /\ IF completes
                 THEN /\ config_file' =
                           WriteYaml(interactive_config(config, duck, yes))
                      /\ pc' = "detect_disks"
                      /\ UNCHANGED exit_code
                 ELSE /\ config_file' \in
                           InterruptedWrite(interactive_config(config, duck, yes))
                      /\ Killed
       ELSE /\ pc' = "detect_disks"
            /\ UNCHANGED <<config, config_file, config_before, calls,
                           accepted, exit_code>>
    /\ UNCHANGED <<argv, install_mode, state_file, devs, fstab,
                   next_uuid, unmounted, fstab_entries, usb_disks, idx, units,
                   mode_path, confirm, disable_req, disable_failed,
                   restart_req, removed, checks_run, checks_failed, crashlog,
                   raised, loaded, devs0, run,
                   ports, listening, in_use>>

\* ------------------------------------------- sections 11-12: fixed disks
\* detect_unmounted_devices: the devices of type disk with no mountpoint.
detect_unmounted_devices(ds) == SelectSeq(DevOrder(ds), LAMBDA d : ~ds[d].mounted)

\* label_disk: lsblk's model with spaces replaced and upper-cased, then the
\* size without "G" and ".", then "_HDD".  The label is kept as its parts
\* and the case of its letters.
label_disk(name, size) ==
    [model |-> DevModel(name), size |-> size, case |-> "upper"]

\* label.lower()
Lower(label) == [label EXCEPT !.case = "lower"]

\* The fstab line the fixed-disk stage builds (lines 380-384): the mount
\* point is /data/ followed by the label in lower case.
FstabLine(uuid, label) ==
    [uuid |-> uuid, mount_point |-> <<"/data/", Lower(label)>>,
     fstype |-> "ext4", options |-> "defaults"]

\* The fstab line the USB stage builds (lines 427-431).
UsbFstabLine(uuid, label) ==
    [uuid |-> uuid, mount_point |-> <<"/mnt/usb_", Lower(label)>>,
     fstype |-> "ext4", options |-> "defaults,noauto"]

\* mkfs.ext4 on a device: it refuses a mounted device and may fail otherwise;
\* when it succeeds the device carries a new filesystem with a new UUID.
\* mount succeeds only on a device that carries a filesystem.  Neither
\* command's status is looked at by the script (subprocess.run, no check).
AfterMkfsMount(dev, mkfs_ok, mount_ok, uuid) ==
    [dev EXCEPT !.uuid = IF mkfs_ok THEN uuid ELSE @,
                !.mounted = @ \/ mount_ok]

CommandsPossible(dev, mkfs_ok, mount_ok, blkid_ok) ==
    /\ mkfs_ok => ~dev.mounted
    /\ mount_ok => (mkfs_ok \/ dev.uuid # 0)
    /\ blkid_ok => (mkfs_ok \/ dev.uuid # 0)

\* Lines 395-402: create_mount_structure, then the detection.
DetectDisks ==
    /\ pc = "detect_disks"
    /\ unmounted' = detect_unmounted_devices(devs)
    /\ fstab_entries' = <<>>
    /\ IF detect_unmounted_devices(devs) # <<>>
       THEN pc' = "setup_disks" /\ idx' = 1
       ELSE pc' = "detect_usb" /\ idx' = 0
    /\ UNCHANGED <<argv, exit_code, install_mode, config, config_file,
                   state_file, devs, fstab, next_uuid, usb_disks, units,
                   calls, accepted, mode_path, confirm, disable_req,
                   disable_failed, restart_req, removed, checks_run,
                   checks_failed, crashlog,
                   raised, loaded, config_before, devs0, run,
                   ports, listening, in_use>>

\* One iteration of setup_unmounted_disks' loop (lines 373-385).  blkid is
\* run with check_output: its failure raises CalledProcessError.
SetupDisk ==
    /\ pc = "setup_disks"
    /\ idx <= Len(unmounted)
    /\ LET d == unmounted[idx]
           label == label_disk(d, DevSize(d))
       IN \E wipe \in BOOLEAN :
            IF ~wipe
            THEN /\ idx' = idx + 1
                 /\ UNCHANGED <<pc, exit_code, raised, devs, next_uuid,
                                fstab_entries, calls, accepted>>
            ELSE /\ accepted < MaxYes
                 /\ accepted' = accepted + 1
                 /\ \E mkfs_ok, mount_ok, blkid_ok \in BOOLEAN :
                      /\ CommandsPossible(devs[d], mkfs_ok, mount_ok, blkid_ok)
                      /\ devs' = [devs EXCEPT ![d] =
                                    AfterMkfsMount(@, mkfs_ok, mount_ok, next_uuid)]
                      /\ next_uuid' = IF mkfs_ok THEN next_uuid + 1 ELSE next_uuid
                      /\ calls' = calls \cup {"mkfs", "mount"}
                      /\ IF blkid_ok
                         THEN /\ fstab_entries' =
                                   Append(fstab_entries,
                                          FstabLine(devs'[d].uuid, label))
                              /\ idx' = idx + 1
                              /\ UNCHANGED <<pc, exit_code, raised>>
                         ELSE /\ Uncaught("CalledProcessError")
                              /\ UNCHANGED <<fstab_entries, idx>>
    /\ UNCHANGED <<argv, install_mode, config, config_file, state_file, fstab,
                   unmounted, usb_disks, units, mode_path, confirm,
                   disable_req, disable_failed, restart_req, removed,
                   checks_run, checks_failed, crashlog,
                   loaded, config_before, devs0, run,
                   ports, listening, in_use>>

\* /etc/fstab opened with mode "w".
write_fstab_truncating(old, entries) == entries

\* write_fstab (lines 388-392), called with the loop's entries (line 400):
\* /etc/fstab is opened with mode "a".
write_fstab(old, entries) == old \o entries

WriteFstab ==
    /\ pc = "setup_disks"
    /\ idx > Len(unmounted)
    /\ fstab' = write_fstab(fstab, fstab_entries)
    /\ calls' = IF fstab_entries # <<>> THEN calls \cup {"fstab_append"} ELSE calls
    /\ pc' = "detect_usb"
    /\ idx' = 0
    /\ UNCHANGED <<argv, exit_code, install_mode, config, config_file,
                   state_file, devs, next_uuid, unmounted, fstab_entries,
                   usb_disks, units, accepted, mode_path, confirm,
                   disable_req, disable_failed, restart_req, removed,
                   checks_run, checks_failed, crashlog,
                   raised, loaded, config_before, devs0, run,
                   ports, listening, in_use>>

\* ------------------------------------------------- section 13: USB devices
\* detect_usb_devices: the devices whose transport is usb, mounted or not.
detect_usb_devices(ds) == SelectSeq(DevOrder(ds), LAMBDA d : ds[d].usb)

\* Lines 442-444, and configure_usb_backups' first statement (line 418).
DetectUsb ==
    /\ pc = "detect_usb"
    /\ usb_disks' = detect_usb_devices(devs)
    /\ IF detect_usb_devices(devs) # <<>>
       THEN /\ config' = [config EXCEPT !.keys = @ \cup {"usb_backups"},
                                        !.usb_backups = <<>>]
            /\ pc' = "usb_loop"
            /\ idx' = 1
       ELSE /\ pc' = "state_cache"
            /\ UNCHANGED <<config, idx>>
    /\ UNCHANGED <<argv, exit_code, install_mode, config_file, state_file,
                   devs, fstab, next_uuid, unmounted, fstab_entries, units,
                   calls, accepted, mode_path, confirm, disable_req,
                   disable_failed, restart_req, removed, checks_run,
                   checks_failed, crashlog,
                   raised, loaded, config_before, devs0, run,
                   ports, listening, in_use>>

\* One iteration of configure_usb_backups' loop (lines 419-439); after the
\* last device the function returns and section 14 follows.
ConfigureUsb ==
    /\ pc = "usb_loop"
    /\ idx <= Len(usb_disks)
    /\ LET d == usb_disks[idx]
           label == label_disk(d, "USB")
           after == IF idx = Len(usb_disks) THEN "state_cache" ELSE "usb_loop"
       IN \E use \in BOOLEAN :
            IF ~use
            THEN /\ idx' = idx + 1
                 /\ pc' = after
                 /\ UNCHANGED <<exit_code, raised, devs, next_uuid, fstab,
                                config, calls, accepted>>
            ELSE /\ accepted < MaxYes
                 /\ accepted' = accepted + 1
                 /\ \E mkfs_ok, mount_ok, blkid_ok \in BOOLEAN :
                      /\ CommandsPossible(devs[d], mkfs_ok, mount_ok, blkid_ok)
                      /\ devs' = [devs EXCEPT ![d] =
                                    AfterMkfsMount(@, mkfs_ok, mount_ok, next_uuid)]
                      /\ next_uuid' = IF mkfs_ok THEN next_uuid + 1 ELSE next_uuid
                      /\ IF blkid_ok
                         THEN /\ fstab' = Append(fstab,
                                                 UsbFstabLine(devs'[d].uuid, label))
                              /\ config' =
                                   [config EXCEPT !.usb_backups =
                                      Append(@, [label |-> label,
                                                 mount_point |->
                                                   <<"/mnt/usb_", Lower(label)>>,
                                                 uuid |-> devs'[d].uuid])]
                              /\ calls' = calls \cup {"mkfs", "mount", "fstab_append"}
                              /\ idx' = idx + 1
                              /\ pc' = after
                              /\ UNCHANGED <<exit_code, raised>>
                         ELSE /\ Uncaught("CalledProcessError")
                              /\ calls' = calls \cup {"mkfs", "mount"}
                              /\ UNCHANGED <<fstab, config, idx>>
    /\ UNCHANGED <<argv, install_mode, config_file, state_file, unmounted,
                   fstab_entries, usb_disks, units, mode_path,
                   confirm, disable_req, disable_failed, restart_req, removed,
                   checks_run, checks_failed, crashlog,
                   loaded, config_before, devs0, run,
                   ports, listening, in_use>>

\* ---------------------------------------------- sections 14-16: state cache
\* save_state_cache's dict (lines 450-457).
StateOf(c) ==
    [EmptyDict EXCEPT
        !.keys = {"last_run", "distro", "hostname", "system_name", "services",
                  "drives"},
        !.system_name = c.system_name,
        !.services = c.services]

SaveStateCache ==
    /\ pc = "state_cache"
    /\ state_file' = WriteYaml(StateOf(config))
    /\ calls' = calls \cup {"state_write"}
    /\ pc' = "dry_run_warning"
    /\ UNCHANGED <<argv, exit_code, install_mode, config, config_file, devs,
                   fstab, next_uuid, unmounted, fstab_entries, usb_disks, idx,
                   units, accepted, mode_path, confirm, disable_req,
                   disable_failed, restart_req, removed, checks_run,
                   checks_failed, crashlog,
                   raised, loaded, config_before, devs0, run,
                   ports, listening, in_use>>

\* dry_run_warning (lines 495-510): under --dry-run the run ends here.
DryRunWarning ==
    /\ pc = "dry_run_warning"
    /\ IF "--dry-run" \in argv
       THEN /\ mode_path' = mode_path \cup {"DryRun"}
            /\ SysExit(0)
       ELSE /\ pc' = "network"
            /\ UNCHANGED <<mode_path, exit_code>>
    /\ UNCHANGED <<argv, install_mode, config, config_file, state_file, devs,
                   fstab, next_uuid, unmounted, fstab_entries, usb_disks, idx,
                   units, calls, accepted, confirm, disable_req,
                   disable_failed, restart_req, removed, checks_run,
                   checks_failed, crashlog,
                   raised, loaded, config_before, devs0, run,
                   ports, listening, in_use>>

\* ---------------------------------------------- sections 17-20: network
\* suggest_network_strategy, the port check and install_duckdns, which
\* enables duckdns.timer when a token and a domain are configured.
install_duckdns(c, us) == IF c.duckdns THEN us \cup {"duckdns.timer"} ELSE us

NetworkStack ==
    /\ pc = "network"
    /\ in_use' = check_ports(ports, listening)
    /\ config' = [config EXCEPT !.keys = @ \cup {"network"}]
    /\ units' = install_duckdns(config, units)
    /\ calls' = IF config.duckdns THEN calls \cup {"install"} ELSE calls
    /\ pc' = "security"
    /\ UNCHANGED <<argv, exit_code, install_mode, config_file, state_file,
                   devs, fstab, next_uuid, unmounted, fstab_entries, usb_disks,
                   idx, accepted, mode_path, confirm, disable_req,
                   disable_failed, restart_req, removed, checks_run,
                   checks_failed, crashlog,
                   raised, loaded, config_before, devs0, run,
                   ports, listening>>

\* --------------------------------------------- sections 21-25: security
\* int(custom_port): the number typed, or ValueError (here -1).
ParsePort(text) ==
    CASE text = "22" -> 22
      [] text = "80" -> 80
      [] OTHER -> -1

\* setup_firewall's choice of tool; None (here "") on any other distro.
FirewallTool(distro) ==
    CASE distro \in {"ubuntu", "debian", "proxmox", "truenas"} -> "ufw"
      [] distro \in {"fedora", "centos", "rhel"} -> "firewalld"
      [] OTHER -> ""

\* The units the security stack enables: firewalld, and fail2ban always.
SecurityUnits(distro) ==
    (IF FirewallTool(distro) = "firewalld" THEN {"firewalld"} ELSE {})
        \cup {"fail2ban"}

\* harden_ssh, setup_firewall, setup_fail2ban (lines 765-769).  harden_ssh
\* returns early when there is no sshd_config.
SecurityStack ==
    /\ pc = "security"
    /\ \E sshd \in BOOLEAN, text \in SshPortInputs, distro \in Distros :
          IF sshd /\ ParsePort(text) = -1
          THEN /\ Uncaught("ValueError")
               /\ UNCHANGED <<config, units, calls>>
          ELSE /\ config' =
                    [config EXCEPT
                       !.keys = @ \cup (IF sshd THEN {"ssh_port"} ELSE {})
                                  \cup {"firewall_tool"},
                       !.ssh_port = IF sshd THEN ParsePort(text) ELSE @,
                       !.firewall_tool = FirewallTool(distro)]
               /\ units' = units \cup SecurityUnits(distro)
               /\ calls' = calls \cup {"install"}
               /\ pc' = "services_reset"
               /\ UNCHANGED <<exit_code, raised>>
    /\ UNCHANGED <<argv, install_mode, config_file, state_file, devs, fstab,
                   next_uuid, unmounted, fstab_entries, usb_disks, idx,
                   accepted, mode_path, confirm, disable_req, disable_failed,
                   restart_req, removed, checks_run, checks_failed, crashlog,
                   loaded, config_before, devs0, run,
                   ports, listening, in_use>>

\* --------------------------------------------- sections 26-35: services
\* Line 785: config["services"] = {}
ServicesReset ==
    /\ pc = "services_reset"
    /\ config' = [config EXCEPT !.keys = @ \cup {"services"},
                                 !.services = NoServices]
    /\ pc' = "services"
    /\ idx' = 1
    /\ UNCHANGED <<argv, exit_code, install_mode, config_file, state_file,
                   devs, fstab, next_uuid, unmounted, fstab_entries, usb_disks,
                   units, calls, accepted, mode_path, confirm, disable_req,
                   disable_failed, restart_req, removed, checks_run,
                   checks_failed, crashlog,
                   raised, loaded, config_before, devs0, run,
                   ports, listening, in_use>>

\* One service prompt and, on yes, its install and config["services"][svc] =
\* True.  install_minecraft raises KeyError on a version it does not know.
ServicePrompt ==
    /\ pc = "services"
    /\ idx <= Len(ServiceOrder)
    /\ LET svc == ServiceOrder[idx]
           after == IF idx = Len(ServiceOrder) THEN "automation" ELSE "services"
       IN \E yes \in BOOLEAN, version_ok \in BOOLEAN :
            IF ~yes
            THEN /\ version_ok
                 /\ idx' = idx + 1
                 /\ pc' = after
                 /\ UNCHANGED <<exit_code, raised, config, units, calls,
                                accepted>>
            ELSE /\ accepted < MaxYes
                 /\ accepted' = accepted + 1
                 /\ calls' = calls \cup {"install"}
                 /\ IF svc = "minecraft" /\ ~version_ok
                    THEN /\ Uncaught("KeyError")
                         /\ UNCHANGED <<config, units, idx>>
                    ELSE /\ version_ok
                         /\ units' = units \cup ServiceUnits(svc)
                         /\ config' = [config EXCEPT !.services =
                                         [s \in DOMAIN @ \cup {svc} |-> TRUE]]
                         /\ idx' = idx + 1
                         /\ pc' = after
                         /\ UNCHANGED <<exit_code, raised>>
    /\ UNCHANGED <<argv, install_mode, config_file, state_file, devs, fstab,
                   next_uuid, unmounted, fstab_entries, usb_disks, mode_path,
                   confirm, disable_req, disable_failed, restart_req, removed,
                   checks_run, checks_failed, crashlog,
                   loaded, config_before, devs0, run,
                   ports, listening, in_use>>

\* ------------------------------------------- sections 36-38: automation
\* enable_automation_engine (lines 973-1053).
AutomationEngine ==
    /\ pc = "automation"
    /\ \E wants \in BOOLEAN :
          IF wants
          THEN /\ accepted < MaxYes
               /\ accepted' = accepted + 1
               /\ units' = units \cup {"polyforge-automate.timer"}
               /\ config' = [config EXCEPT
                               !.keys = @ \cup {"automation_enabled"},
                               !.automation_enabled = TRUE]
               /\ calls' = calls \cup {"install"}
          ELSE UNCHANGED <<accepted, units, config, calls>>
    /\ pc' = "postflight"
    /\ UNCHANGED <<argv, exit_code, install_mode, config_file, state_file,
                   devs, fstab, next_uuid, unmounted, fstab_entries, usb_disks,
                   idx, mode_path, confirm, disable_req, disable_failed,
                   restart_req, removed, checks_run, checks_failed, crashlog,
                   raised, loaded, config_before, devs0, run,
                   ports, listening, in_use>>

\* save_postinstall_snapshot and show_postflight_summary (lines 1113-1114).
\* On "Reboot system now?" the reboot either takes the process down at once
\* (status 143, SIGTERM) or lets it go on.
Postflight ==
    /\ pc = "postflight"
    /\ \E reboot \in BOOLEAN, killed \in BOOLEAN :
          IF reboot /\ killed
          THEN /\ pc' = "killed"
               /\ exit_code' = 143
          ELSE /\ pc' = "argparse"
               /\ UNCHANGED exit_code
    /\ UNCHANGED <<argv, install_mode, config, config_file, state_file, devs,
                   fstab, next_uuid, unmounted, fstab_entries, usb_disks, idx,
                   units, calls, accepted, mode_path, confirm, disable_req,
                   disable_failed, restart_req, removed, checks_run,
                   checks_failed, crashlog,
                   raised, loaded, config_before, devs0, run,
                   ports, listening, in_use>>

\* ------------------------------------------ section 39: action routing
\* parse_args() (line 1127) ends the process with status 2 on an option the
\* parser does not declare.
ArgparseAccepts(args) == args \subseteq ArgparseOptions

Argparse ==
    /\ pc = "argparse"
    /\ IF ArgparseAccepts(argv)
       THEN /\ pc' = "route"
            /\ UNCHANGED exit_code
       ELSE SysExit(2)
    /\ UNCHANGED <<argv, install_mode, config, config_file, state_file, devs,
                   fstab, next_uuid, unmounted, fstab_entries, usb_disks, idx,
                   units, calls, accepted, mode_path, confirm, disable_req,
                   disable_failed, restart_req, removed, checks_run,
                   checks_failed, crashlog,
                   raised, loaded, config_before, devs0, run,
                   ports, listening, in_use>>

\* The first of the blocks of lines 1132-1178 whose `if` holds.
ModeBlock(args) ==
    IF "--dry-run" \in args THEN "DryRun"
    ELSE IF "--repair" \in args THEN "Repair"
    ELSE IF "--reconfigure" \in args THEN "Reconfigure"
    ELSE IF "--uninstall" \in args THEN "Uninstall"
    ELSE "none"

\* Repair mode (lines 1140-1146).
RepairMode ==
    /\ pc = "route"
    /\ ModeBlock(argv) = "Repair"
    /\ mode_path' = mode_path \cup {"Repair"}
    /\ restart_req' = restart_req \cup RepairServices
    /\ SysExit(0)
    /\ UNCHANGED <<argv, install_mode, config, config_file, state_file, devs,
                   fstab, next_uuid, unmounted, fstab_entries, usb_disks, idx,
                   units, calls, accepted, confirm, disable_req,
                   disable_failed, removed, checks_run, checks_failed,
                   crashlog,
                   raised, loaded, config_before, devs0, run,
                   ports, listening, in_use>>

\* Reconfigure mode (lines 1151-1158): config_path is not a name of the
\* script (the path is CONFIG_PATH), so line 1153 raises NameError.
ReconfigureMode ==
    /\ pc = "route"
    /\ ModeBlock(argv) = "Reconfigure"
    /\ mode_path' = mode_path \cup {"Reconfigure"}
    /\ Uncaught("NameError")
    /\ UNCHANGED <<argv, install_mode, config, config_file, state_file, devs,
                   fstab, next_uuid, unmounted, fstab_entries, usb_disks, idx,
                   units, calls, accepted, confirm, disable_req,
                   disable_failed, restart_req, removed, checks_run,
                   checks_failed, crashlog,
                   loaded, config_before, devs0, run,
                   ports, listening, in_use>>

\* The unit files present on a machine whose enabled units are us: the
\* installers that enable a timer or a socket install its service as well.
UnitFiles(us) ==
    us \cup (IF "duckdns.timer" \in us THEN {"duckdns"} ELSE {})
       \cup (IF "cockpit.socket" \in us THEN {"cockpit"} ELSE {})
       \cup (IF "polyforge-automate.timer" \in us
             THEN {"polyforge-automate.service"} ELSE {})

\* subprocess.run with check=True: a failing command raises.
RunRaisesChecked(command_ok) == ~command_ok

\* subprocess.run(..., shell=True) without check: a failing command raises
\* nothing.
RunRaises(command_ok) == FALSE

\* The confirmation's answer ignored.
ProceedsUnasked(answer) == TRUE

\* `if Confirm.ask(...)` of line 1176.
Proceeds(answer) == answer = "yes"

\* rm -rf of a folder removes the files under it.
AfterRm(file, path, folders) == IF DirOf(path) \in folders THEN NoFile ELSE file

\* Uninstall mode (lines 1163-1178): the confirmation, then
\* uninstall_everything and sys.exit(0).  When the operator declines the
\* script goes on with the next section.
UninstallMode ==
    /\ pc = "route"
    /\ ModeBlock(argv) = "Uninstall"
    /\ mode_path' = mode_path \cup {"Uninstall"}
    /\ \E answer \in {"yes", "no"} :
          /\ confirm' = answer
          /\ IF Proceeds(answer)
             THEN /\ disable_req' = disable_req \cup UninstallServices
                  /\ disable_failed' =
                       {u \in UninstallServices : u \notin UnitFiles(units)}
                  /\ units' = units \ UninstallServices
                  /\ IF \E u \in UninstallServices :
                          RunRaises(u \in UnitFiles(units))
                     THEN /\ Uncaught("CalledProcessError")
                          /\ UNCHANGED <<removed, config_file, state_file>>
                     ELSE /\ removed' = removed \cup UninstallFolders
                          /\ config_file' =
                               AfterRm(config_file, CONFIG_PATH, UninstallFolders)
                          /\ state_file' =
                               AfterRm(state_file, STATE_PATH, UninstallFolders)
                          /\ SysExit(0)
                          /\ UNCHANGED raised
             ELSE /\ pc' = "disable_automation"
                  /\ UNCHANGED <<exit_code, raised, disable_req,
                                 disable_failed, units, removed, config_file,
                                 state_file>>
    /\ UNCHANGED <<argv, install_mode, config, devs, fstab, next_uuid,
                   unmounted, fstab_entries, usb_disks, idx, calls, accepted,
                   restart_req, checks_run, checks_failed, crashlog,
                   loaded, config_before, devs0, run,
                   ports, listening, in_use>>

\* No mode block applies: the script goes on with line 1183.
NoMode ==
    /\ pc = "route"
    /\ ModeBlock(argv) = "none"
    /\ pc' = "disable_automation"
    /\ UNCHANGED <<argv, exit_code, install_mode, config, config_file,
                   state_file, devs, fstab, next_uuid, unmounted,
                   fstab_entries, usb_disks, idx, units, calls, accepted,
                   mode_path, confirm, disable_req, disable_failed,
                   restart_req, removed, checks_run, checks_failed, crashlog,
                   raised, loaded, config_before, devs0, run,
                   ports, listening, in_use>>

\* Lines 1183-1186.
DisableAutomation ==
    /\ pc = "disable_automation"
    /\ IF "--disable-automation" \in argv
       THEN /\ disable_req' = disable_req \cup {"polyforge-automate.timer"}
            /\ disable_failed' =
                 disable_failed \cup
                   ({"polyforge-automate.timer"} \ UnitFiles(units))
            /\ units' = units \ {"polyforge-automate.timer"}
            /\ SysExit(0)
       ELSE /\ pc' = "main"
            /\ UNCHANGED <<exit_code, disable_req, disable_failed, units>>
    /\ UNCHANGED <<argv, install_mode, config, config_file, state_file, devs,
                   fstab, next_uuid, unmounted, fstab_entries, usb_disks, idx,
                   calls, accepted, mode_path, confirm, restart_req, removed,
                   checks_run, checks_failed, crashlog,
                   raised, loaded, config_before, devs0, run,
                   ports, listening, in_use>>

\* ------------------------------------------ sections 40-44: crash handler
\* The plugin hooks, the launcher, the GitOps sync and the snapshot offer,
\* then main() (lines 1270-1286): run_polyforge is not defined anywhere, the
\* NameError is caught, the crash log written and the process exits with 1.
\* Nothing after line 1286 runs, the --validate block (lines 1291-1334)
\* included.
Main ==
    /\ pc = "main"
    /\ raised' = "NameError"
    /\ crashlog' = TRUE
    /\ SysExit(1)
    /\ UNCHANGED <<argv, install_mode, config, config_file, state_file, devs,
                   fstab, next_uuid, unmounted, fstab_entries, usb_disks, idx,
                   units, calls, accepted, mode_path, confirm, disable_req,
                   disable_failed, restart_req, removed, checks_run,
                   checks_failed,
                   loaded, config_before, devs0, run,
                   ports, listening, in_use>>

Next ==
    \/ Preflight \/ IntroPrompt \/ LoadConfig \/ SystemName
    \/ InteractiveConfig \/ DetectDisks \/ SetupDisk \/ WriteFstab
    \/ DetectUsb \/ ConfigureUsb \/ SaveStateCache \/ DryRunWarning
    \/ NetworkStack \/ SecurityStack \/ ServicesReset \/ ServicePrompt
    \/ AutomationEngine \/ Postflight \/ Argparse \/ RepairMode
    \/ ReconfigureMode \/ UninstallMode \/ NoMode \/ DisableAutomation
    \/ Main

Spec == Init /\ [][Next]_vars

\* ------------------------------------------------ successive install runs
\* The devices after a boot: a filesystem is mounted when /etc/fstab has a
\* line for its UUID without noauto (the fixed-disk stage writes "defaults",
\* the USB stage "defaults,noauto").
AfterBoot(ds, tab) ==
    [d \in DOMAIN ds |->
        [ds[d] EXCEPT !.mounted =
            /\ ds[d].uuid # 0
            /\ \E i \in DOMAIN tab :
                  tab[i].uuid = ds[d].uuid /\ tab[i].options = "defaults"]]

\* The script is started again with the same command line once the previous
\* run is over, after a reboot or without one.  The files, the devices and
\* the units are as the previous run left them; everything the script holds
\* in memory starts anew.
NextRun ==
    /\ Terminated
    /\ run < MaxRuns
    /\ run' = run + 1
    /\ \E reboot \in BOOLEAN :
          devs' = IF reboot THEN AfterBoot(devs, fstab) ELSE devs
    /\ devs0' = devs'
    /\ pc' = "preflight"
    /\ exit_code' = -1
    /\ install_mode' = "unset"
    /\ config' = EmptyDict
    /\ unmounted' = <<>>
    /\ fstab_entries' = <<>>
    /\ usb_disks' = <<>>
    /\ idx' = 0
    /\ calls' = {}
    /\ accepted' = 0
    /\ mode_path' = {}
    /\ confirm' = "none"
    /\ disable_req' = {}
    /\ disable_failed' = {}
    /\ restart_req' = {}
    /\ removed' = {}
    /\ raised' = "none"
    /\ loaded' = NotLoaded
    /\ config_before' = config_file
    /\ in_use' = <<>>
    /\ UNCHANGED <<argv, config_file, state_file, fstab, next_uuid, units,
                   checks_run, checks_failed, crashlog, ports, listening>>

\* Install runs: the script started without any flag.
InitInstall == Init /\ argv = {}

NextInstall ==
    \/ Preflight \/ IntroPrompt \/ LoadConfig \/ SystemName
    \/ InteractiveConfig \/ DetectDisks \/ SetupDisk \/ WriteFstab
    \/ DetectUsb \/ ConfigureUsb \/ SaveStateCache \/ DryRunWarning
    \/ NetworkStack \/ SecurityStack \/ ServicesReset \/ ServicePrompt
    \/ AutomationEngine \/ Postflight \/ Argparse \/ NoMode
    \/ DisableAutomation \/ Main \/ NextRun

InstallRuns == InitInstall /\ [][NextInstall]_vars

\* Install runs on a fresh machine that has one disk more than MaxDisks, all
\* of them raw: with DevModel and DevSize they are disks of one model and
\* one size.
InitTwins ==
    Boot("preflight", {{}}, {"fresh"},
         {ds \in Inventories(MaxDisks + 1) : \A d \in DOMAIN ds : ~ds[d].mounted},
         {REQUIRED_PORTS}, {{}})

TwinRuns == InitTwins /\ [][NextInstall]_vars

\* ----------------------------------------------------- check_ports alone
\* The names and the ports of the mappings check_ports is applied to, and
\* the longest list of ports of one service.
PortNames == {"SSH", "Plex"}
PortNumbers == {22, 32400}
MaxListLen == 2

\* A port, or a list of at most MaxListLen ports.
PortValues ==
    {[list |-> FALSE, ports |-> <<p>>] : p \in PortNumbers} \cup
    {[list |-> TRUE, ports |-> l] :
        l \in UNION {[1..n -> PortNumbers] : n \in 0..MaxListLen}}

\* The dicts over PortNames: no key twice.
Mappings ==
    {m \in UNION {[1..n -> [name : PortNames, list : BOOLEAN,
                              ports : {v.ports : v \in PortValues}]] :
                     n \in 0..Cardinality(PortNames)} :
        /\ \A i \in DOMAIN m :
              [list |-> m[i].list, ports |-> m[i].ports] \in PortValues
        /\ \A i, j \in DOMAIN m : m[i].name = m[j].name => i = j}

\* conflicts = check_ports(...) (line 574).
CheckPorts ==
    /\ pc = "check_ports"
    /\ in_use' = check_ports(ports, listening)
    /\ pc' = "checked"
    /\ UNCHANGED <<argv, exit_code, install_mode, config, config_file,
                   state_file, devs, fstab, next_uuid, unmounted,
                   fstab_entries, usb_disks, idx, units, calls, accepted,
                   mode_path, confirm, disable_req, disable_failed,
                   restart_req, removed, checks_run, checks_failed, crashlog,
                   raised, loaded, config_before, devs0, run, ports,
                   listening>>

InitPorts ==
    Boot("check_ports", {{}}, {"fresh"}, Inventories(0), Mappings,
         SUBSET PortNumbers)

NextPorts == CheckPorts

PortCheck == InitPorts /\ [][NextPorts]_vars

\* ------------------------------------------------------------- properties
\* The flags that select a run mode, and the mode the precedence
\* Uninstall > Reconfigure > Repair > Validate > DryRun > Install selects.
ModeFlags ==
    {"--uninstall", "--reconfigure", "--repair", "--validate", "--dry-run"}

ClaimedMode(args) ==
    IF "--uninstall" \in args THEN "Uninstall"
    ELSE IF "--reconfigure" \in args THEN "Reconfigure"
    ELSE IF "--repair" \in args THEN "Repair"
    ELSE IF "--validate" \in args THEN "Validate"
    ELSE IF "--dry-run" \in args THEN "DryRun"
    ELSE "Install"

\* The mutating calls of the disk stage, and those of the install sequence.
DiskCalls == {"mkfs", "mount", "fstab_append"}
InstallCalls == DiskCalls \cup {"config_write", "state_write", "install"}

\* C1: in a run started with --dry-run no mkfs, no mount and no append to
\* /etc/fstab is ever issued.
C1_DryRunIssuesNoDiskCall ==
    "--dry-run" \in argv => calls \cap DiskCalls = {}

\* C2: in a run started with --dry-run neither the Config document nor the
\* StateCache document is created, truncated or rewritten.
C2_DryRunWritesNoDocument ==
    "--dry-run" \in argv => ("config_write" \notin calls /\ "state_write" \notin calls)

\* C3: with more than one mode flag the only mode path entered is the one
\* highest in Uninstall > Reconfigure > Repair > Validate > DryRun > Install;
\* with --uninstall --repair it is Uninstall and not Repair.
C3_MostDestructiveModeWins ==
    Cardinality(argv \cap ModeFlags) > 1 => mode_path \subseteq {ClaimedMode(argv)}

\* C4: a run whose mode is Repair, Reconfigure, Uninstall or Validate
\* executes no step of the install sequence: no Config creation, no disk
\* format or mount, no fstab append, no StateCache save, no install.
C4_AlternateModesSkipInstall ==
    ClaimedMode(argv) \in {"Repair", "Reconfigure", "Uninstall", "Validate"}
        => calls \cap InstallCalls = {}

\* C5: a --reconfigure run erases the Config and StateCache documents,
\* gathers the configuration and terminates normally, with no disk and no
\* service provisioning: once the Reconfigure block has run, the process has
\* exited with status 0, no StateCache document exists and no provisioning
\* call was issued.
C5_ReconfigureErasesAndGathers ==
    "Reconfigure" \in mode_path =>
        /\ pc = "exited" /\ exit_code = 0
        /\ ~state_file.exists
        /\ calls \cap (DiskCalls \cup {"install", "state_write"}) = {}

\* C6 as stated: in a --uninstall run units are disabled and folders removed
\* only after the operator confirmed; after a decline no unit is disabled,
\* no folder is removed and the Config document exists.
C6_UninstallOnlyAfterConfirm ==
    "--uninstall" \in argv =>
        /\ (disable_req # {} \/ removed # {}) => confirm = "yes"
        /\ confirm = "no" =>
              (disable_req = {} /\ removed = {} /\ config_file.exists)

\* C6 as amended: in a --uninstall run folders are removed, and units other
\* than polyforge-automate.timer disabled, only after the operator
\* confirmed; after a decline no folder is removed, the Config document
\* exists and no unit is disabled, except polyforge-automate.timer when
\* --disable-automation was supplied as well.
C6_UninstallOnlyAfterConfirmOrAutomationFlag ==
    "--uninstall" \in argv =>
        LET by_flag == IF "--disable-automation" \in argv
                       THEN {"polyforge-automate.timer"} ELSE {}
        IN  /\ (removed # {} \/ ~(disable_req \subseteq by_flag))
                  => confirm = "yes"
            /\ confirm = "no" =>
                  /\ disable_req \subseteq by_flag
                  /\ removed = {}
                  /\ config_file.exists

\* The operator declined the uninstall and the run went on to its end.
C6_Witness == confirm = "no" /\ Terminated /\ config_file.exists

\* C7: a confirmed uninstall in which every disable fails, the unit not
\* existing, ends by sys.exit(0) with no exception raised, and neither the
\* Config nor the StateCache document exists afterwards.
C7_UninstallWithNothingInstalled ==
    (confirm = "yes" /\ disable_failed = UninstallServices) =>
        /\ pc = "exited" /\ exit_code = 0 /\ ~crashlog
        /\ ~config_file.exists
        /\ ~state_file.exists

C7_Witness ==
    /\ confirm = "yes"
    /\ disable_failed = UninstallServices
    /\ pc = "exited"
    /\ removed = UninstallFolders

\* The units the install path can enable.
InstallableUnits ==
    {"plexmediaserver", "minecraft", "cockpit.socket", "vboxdrv",
     "duckdns.timer", "fail2ban", "polyforge-automate.timer", "docker",
     "casaos"}

\* C8: a confirmed uninstall issues a disable request for every unit the
\* install path can enable.
C8_UninstallDisablesEveryUnit ==
    confirm = "yes" => InstallableUnits \subseteq disable_req

\* C9: a run invoked with --validate executes every registered check.
C9_ValidateRunsEveryCheck ==
    (argv \cap ModeFlags = {"--validate"} /\ pc = "exited")
        => checks_run = ValidateChecks

\* C10: a validate run exits with 1 if and only if at least one check
\* failed and with 0 if and only if every check passed.
C10_ValidateExitCodeReflectsChecks ==
    (argv \cap ModeFlags = {"--validate"} /\ pc = "exited")
        => exit_code = (IF checks_failed # {} THEN 1 ELSE 0)

\* A save of the Config document was interrupted: the process was killed
\* while it wrote config.yaml.
SaveInterrupted == pc = "killed" /\ exit_code = 137

\* C11: saving the Config document is an atomic replace: after a save that
\* was interrupted before it completed, config.yaml is as it was before the
\* save began, or it fails to parse; it never holds an empty, truncated or
\* partially new document.
C11_InterruptedSaveIsAtomic ==
    SaveInterrupted =>
        \/ config_file = config_before
        \/ (config_file.exists /\ ~config_file.parses)

\* C12: load_config tells an absent document from an unparseable one, and
\* after a load that failed on an unparseable document the existing
\* config.yaml is not overwritten with a freshly created document (it is
\* still the unparseable file, unless a confirmed uninstall removed it).
C12_FailedLoadKeepsConfigFile ==
    /\ loaded.msg \in {"Config file not found", "Error parsing config.yaml"}
          => Falsy(loaded.doc)
    /\ loaded.msg = "Error parsing config.yaml"
          => (config_file = CorruptFile \/ "/etc/polyforge" \in removed)

\* The services the module-level prompts of sections 27-35 ask about.
PromptedServices == {ServiceOrder[i] : i \in 1..Len(ServiceOrder)}

\* C13: every field of the Config loaded at the start of the run that no
\* operator answer of the run changed is in the config at the end of the
\* run with the same value: every top-level key is kept, and so is every
\* entry of the services mapping the run has no prompt for.
C13_ConfigRoundTripsLosslessly ==
    (loaded.msg = "none" /\ Terminated) =>
        /\ loaded.doc.keys \subseteq config.keys
        /\ config.system_name = loaded.doc.system_name
        /\ \A s \in DOMAIN loaded.doc.services \ PromptedServices :
              /\ s \in DOMAIN config.services
              /\ config.services[s] = loaded.doc.services[s]

\* mkfs succeeded on device d in this run: d carries a new filesystem.
FormattedNow(d) == devs[d].uuid # devs0[d].uuid

\* mount succeeded on device d in this run.
MountedNow(d) == devs[d].mounted /\ ~devs0[d].mounted

\* The lines of /etc/fstab that name the filesystem u.
FstabRecords(u) == {i \in DOMAIN fstab : fstab[i].uuid = u}

\* The mount records the config holds that name the filesystem u.  The only
\* list of mounts a config dict has is usb_backups.
ConfigRecords(u) ==
    {i \in DOMAIN config.usb_backups : config.usb_backups[i].uuid = u}

\* The script is past its fixed-disk stage (lines 395-402).
DiskStageOver ==
    pc \notin {"preflight", "intro_prompt", "load_config", "system_name",
               "interactive_config", "detect_disks", "setup_disks"}

\* The devices an unrecorded-disk warning was printed for: neither
\* setup_unmounted_disks nor write_fstab has a statement that prints one.
unrecorded_warned == {}

\* C15: when one unmounted disk was discovered and accepted, and its format,
\* mount and UUID read succeeded, then after the disk stage /etc/fstab holds
\* exactly one line for its UUID, with mount point /data/<label> (the label
\* in lower case), and the config holds exactly one mount record for that
\* UUID.
C15_AcceptedDiskIsRecordedOnce ==
    (Len(unmounted) = 1 /\ fstab_entries # <<>> /\ pc # "setup_disks") =>
        LET d == unmounted[1]
        IN  (FormattedNow(d) /\ MountedNow(d)) =>
               /\ Cardinality(FstabRecords(devs[d].uuid)) = 1
               /\ \A i \in FstabRecords(devs[d].uuid) :
                     fstab[i].mount_point =
                        <<"/data/", Lower(label_disk(d, DevSize(d)))>>
               /\ Cardinality(ConfigRecords(devs[d].uuid)) = 1

\* C16: a line of /etc/fstab is written for a filesystem only if the format
\* and the mount of its disk both succeeded in this run; a disk whose
\* format or mount failed has no line.
C16_NoSpeculativeMountRecord ==
    \A i \in DOMAIN fstab :
        \E d \in DOMAIN devs :
            /\ devs[d].uuid = fstab[i].uuid
            /\ FormattedNow(d)
            /\ MountedNow(d)

\* C17: a failure of a disk operation (format, mount, UUID read) does not
\* abort the run: the run is never ended by the exception of a failed disk
\* command.
C17_DiskFailureDoesNotAbortRun ==
    ~(pc = "crashed" /\ raised = "CalledProcessError")

\* C18: once the disk stage is over, however it ended, every disk this run
\* mounted has a line in /etc/fstab or an unrecorded-disk warning was
\* printed for it.
C18_MountedDiskRecordedOrWarned ==
    (DiskStageOver /\ pc # "usb_loop") =>
        \A d \in DOMAIN devs :
            MountedNow(d) =>
                (FstabRecords(devs[d].uuid) # {} \/ d \in unrecorded_warned)

\* C19: an unhandled failure of any install step ends with the trace in the
\* crash log and the process exited with a non-zero status, the exception
\* not leaving the program.
C19_CrashReporterWrapsInstall ==
    raised # "none" =>
        (Terminated => (pc = "exited" /\ exit_code # 0 /\ crashlog))

\* C20: a run without a mode flag that no failing step ended exits with
\* status 0, and status 1 occurs only together with a crash.
C20_InstallExitsZero ==
    /\ (argv \cap ModeFlags = {} /\ pc = "exited") => exit_code = 0
    /\ exit_code = 1 => raised # "none"

\* An earlier run promoted device d to Mounted: when this run began d was
\* mounted and carried a filesystem the script had made.
PromotedEarlier(d) == devs0[d].mounted /\ devs0[d].uuid > MaxDisks

\* C14: in a run that follows another one, a disk an earlier run promoted
\* to Mounted is not formatted again and gets no second record: /etc/fstab
\* holds at most one line for its UUID.
C14_DiskCommitIsIdempotent ==
    run > 1 =>
        \A d \in DOMAIN devs :
            PromotedEarlier(d) =>
                /\ ~FormattedNow(d)
                /\ Cardinality(FstabRecords(devs[d].uuid)) <= 1

\* The script is past its service prompts (sections 27-35) in this run.
ProvisionersDone ==
    \/ pc \in {"automation", "postflight", "argparse", "route",
               "disable_automation", "main"}
    \/ (Terminated /\ idx = Len(ServiceOrder) + 1)

\* C21: the StateCache is written only after all network, security and
\* service steps of the run, and not by a run that fails before completing
\* them: whenever the state cache was written in this run, the run is past
\* its service prompts.
C21_StateCacheSavedAfterProvisioners ==
    "state_write" \in calls => ProvisionersDone

\* The ports REQUIRED_PORTS declares for the services other than SSH.
ServicePorts ==
    UNION {{REQUIRED_PORTS[i].ports[k] : k \in DOMAIN REQUIRED_PORTS[i].ports} :
             i \in {j \in DOMAIN REQUIRED_PORTS :
                       REQUIRED_PORTS[j].name # "SSH"}}

\* C25: the SSH port recorded in the config is a positive integer of at
\* most 65535 and differs from every declared service port.
C25_SshPortValidAndDisjoint ==
    "ssh_port" \in config.keys =>
        /\ config.ssh_port \in 1..65535
        /\ config.ssh_port \notin ServicePorts

\* The (name, port) pairs of a mapping whose port is listening.
ListeningPairs(items, open) ==
    UNION {{<<items[i].name, items[i].ports[k]>> :
              k \in {n \in DOMAIN items[i].ports : items[i].ports[n] \in open}} :
             i \in DOMAIN items}

\* The elements of a list.
Elements(list) == {list[i] : i \in DOMAIN list}

\* No element occurs twice in the list.
NoRepeat(list) == \A i, j \in DOMAIN list : list[i] = list[j] => i = j

\* C26 as stated: for every mapping and every set of listening ports,
\* check_ports returns exactly the pairs of the mapping whose port is
\* listening, and no pair twice.
C26_PortCheckReturnsListeningPairs ==
    pc = "checked" =>
        /\ Elements(in_use) = ListeningPairs(ports, listening)
        /\ NoRepeat(in_use)

\* C26 as amended: check_ports returns exactly the pairs of the mapping
\* whose port is listening, and no pair twice when no list of the mapping
\* names a port twice.
C26_PortCheckReturnsListeningPairsOfDistinctPorts ==
    pc = "checked" =>
        /\ Elements(in_use) = ListeningPairs(ports, listening)
        /\ (\A i \in DOMAIN ports : NoRepeat(ports[i].ports))
              => NoRepeat(in_use)

\* {SSH: 22, Plex: 32400} with a listener on 32400 gave [(Plex, 32400)].
C26_Witness ==
    /\ pc = "checked"
    /\ ports = <<[name |-> "SSH", list |-> FALSE, ports |-> <<22>>],
                 [name |-> "Plex", list |-> FALSE, ports |-> <<32400>>]>>
    /\ listening = {32400}
    /\ in_use = <<<<"Plex", 32400>>>>

\* The keys under which the install steps record the operator's choices.
ChoiceKeys ==
    {"services", "ssh_port", "firewall_tool", "network", "usb_backups"}

\* C27: when an install run has ended, every choice recorded in the
\* in-memory config (the installed services, the SSH port, the firewall
\* tool, the network choice, the USB backup targets) is in config.yaml with
\* the same value.
C27_PersistedConfigHoldsChoices ==
    (pc = "exited" /\ argv \cap ModeFlags = {}) =>
        /\ config.keys \cap ChoiceKeys \subseteq config_file.doc.keys
        /\ config_file.doc.services = config.services
        /\ config_file.doc.ssh_port = config.ssh_port
        /\ config_file.doc.firewall_tool = config.firewall_tool
        /\ config_file.doc.usb_backups = config.usb_backups

\* C22: any two distinct disks that were accepted and are mounted have
\* different mount points in /etc/fstab, also when both report the same
\* model and the same size.
C22_MountPointsAreUnique ==
    \A d1, d2 \in DOMAIN devs :
        (d1 # d2 /\ devs[d1].mounted /\ devs[d2].mounted) =>
            \A i \in FstabRecords(devs[d1].uuid), j \in FstabRecords(devs[d2].uuid) :
                fstab[i].mount_point # fstab[j].mount_point

\* Sequence a is the beginning of sequence b.
IsPrefix(a, b) == Len(a) <= Len(b) /\ SubSeq(b, 1, Len(a)) = a

\* C23: writes to /etc/fstab are append-only: in every step of every run,
\* of the fixed-disk stage and of the USB stage alike, the lines present
\* before the step are an unchanged prefix of the lines present after it.
C23_FstabIsAppendOnly == [][IsPrefix(fstab, fstab')]_vars

\* A second run appended a line to the line an earlier run had left.
C23_Witness ==
    /\ run > 1
    /\ "fstab_append" \in calls
    /\ Len(fstab) > 1

\* Device d holds a filesystem that the script made in an earlier run and
\* that a USB stage registered in /etc/fstab as a backup target.
BackupTarget(d) ==
    /\ devs0[d].uuid > MaxDisks
    /\ devs[d].uuid = devs0[d].uuid
    /\ \E i \in FstabRecords(devs[d].uuid) :
           fstab[i].options = "defaults,noauto"

\* C24: the USB stage never formats a device that is mounted when it is
\* offered or that an earlier USB stage formatted and registered as a
\* backup target: each USB device is formatted at most once.
C24_UsbDeviceFormattedAtMostOnce ==
    [][pc = "usb_loop" =>
         \A d \in DOMAIN devs :
             (devs[d].mounted \/ BackupTarget(d))
                 => devs'[d].uuid = devs[d].uuid]_vars

=============================================================================
